---- MODULE Spec2Model ----
(***************************************************************************)
(* Model of emailattachmentdownloader.py: one run of TitanFlowManager.run  *)
(* driven by main().  The IMAP server and the blob store are the           *)
(* environment: every call answers with one of the responses the call can  *)
(* produce, and the content of a message is drawn when the code reads it:  *)
(* the headers when the message is fetched, the attachment parts when a    *)
(* selected message's parts are iterated.  The parts of a message that is  *)
(* not selected are never read and stay undrawn.                           *)
(* The generator get_attachments() and its consumer run() are one thread   *)
(* of control, so a single program counter pc follows both.                *)
(***************************************************************************)
EXTENDS Integers, Sequences, FiniteSets, TLC

\* ---- bounds ---------------------------------------------------------------
NumMsgs == 2          \* the mailbox holds at most this many messages
MaxAtts == 2          \* a message carries at most this many attachments
MaxPatternLen == 5    \* a --filename-pattern has at most this many characters

\* ---- value sets -----------------------------------------------------------
UIDs == 1 .. NumMsgs

\* what message[name] gives for a header the message does not carry
None == "None"

\* header values; the compiled patterns are the sets of values they match
Subjects == {"report", "spam", None}
Senders == {"feed", "stranger", None}
FileNames == {"data.csv", "notes.txt", None}

\* seen: "no" before the fetch, "headers" when only Subject and From were
\* read, "parts" when the attachment parts were read too
NoMail == [subject |-> "", sender |-> "", atts |-> << >>, seen |-> "no"]

AttLists == UNION {[1 .. n -> FileNames] : n \in 0 .. MaxAtts}

Headers == [subject : Subjects, sender : Senders, atts : {<< >>}, seen : {"headers"}]

Event(op, uid, att, res) == [op |-> op, uid |-> uid, att |-> att, res |-> res]

VARIABLES
    fetch_one,            \* self.fetch_one
    match_date_received,  \* self.match_date_received
    archive_folder,       \* TRUE iff self.archive_folder is not None
    load_date,            \* main: load_date, as year, month and day
    template,             \* main: --filename-pattern as given
    filename_pattern,     \* main: filename_pattern, a string of characters
    passes,               \* how many times the placeholders were substituted
    inbox,                \* UIDs of the messages in the source folder
    listed,               \* UIDs the server's search response listed
    deleted,              \* UIDs flagged \Deleted in the source folder
    archive,              \* UIDs copied into the archive folder
    seen_flags,           \* UIDs a fetch of this run flagged \Seen in the source folder
    session,              \* imaplib connection state
    readonly,             \* the selected folder is open read-only
    pc,                   \* position of the thread of control
    failure,              \* the exception that ended the run, or "none"
    uids,                 \* get_attachments: the candidate list
    idx,                  \* get_attachments: position in uids (1-based)
    mail,                 \* the messages fetched so far, by UID
    att,                  \* get_attachments: last attachment part visited
    attachments_found,    \* get_attachments: the flag of that name
    uids_to_move,         \* run: the archive batch
    pending,              \* archive_uids: identifiers the loop has not visited
    cur,                  \* archive_uids: identifier of the current iteration
    blobs,                \* the blob store: key -> <<uid, part>> or << >>
    events,               \* history: every call issued and every pair yielded
    exitStatus            \* process exit status, -1 while running

config == <<fetch_one, match_date_received, archive_folder, load_date, template,
            filename_pattern, passes>>
mailbox == <<inbox, listed, deleted, archive, seen_flags>>
scanner == <<uids, idx, mail, att, attachments_found>>
archiver == <<pending, cur>>
vars == <<config, mailbox, scanner, archiver, session, readonly, pc, failure,
          uids_to_move, blobs, events, exitStatus>>

\* ---- helpers --------------------------------------------------------------
\* variant: the list is walked as the server listed it
Reverse_Forgotten(s) == s
RECURSIVE Reverse(_)
\* list.reverse()
Reverse(s) == IF s = << >> THEN << >> ELSE Append(Reverse(Tail(s)), Head(s))

RECURSIVE Ascending(_)
\* the identifiers of a folder in the order the server lists them
Ascending(S) ==
    IF S = {} THEN << >>
    ELSE LET m == CHOOSE x \in S : \A y \in S : x <= y
         IN <<m>> \o Ascending(S \ {m})

\* self.email_subject.match(mail["Subject"]) and self.email_sender.match(mail["From"])
email_subject_match(s) == s = "report"
email_sender_match(s) == s = "feed"
matchesMessage(m) == email_subject_match(m.subject) /\ email_sender_match(m.sender)

\* self.filename_pattern.match(attachment["Content-Description"])
filename_pattern_match(n) == n = "data.csv"

\* variant: the response is not tested
raise_if_not_ok_Unchecked(response) == FALSE
\* raise_if_not_ok: TRUE iff it raises
raise_if_not_ok(response) == response # "OK"

\* get_blob_name("{TITAN_DATA_SET_NAME}_{TITAN_LOAD_DATE}_{file_name}", ...):
\* data set and load date are fixed for the run, the key varies with the name
get_blob_name(file_name) == file_name

\* variant: an exception ends the with-block like a normal return
Raise_Resumes(kind) == /\ pc' = "leaving"
                       /\ failure' = kind
\* an exception leaves the with-block
Raise(kind) == /\ pc' = "unwinding"
               /\ failure' = kind

Log(e) == events' = Append(events, e)

\* ---- main(): the placeholders of --filename-pattern -------------------------
PatternChars == {"Y", "M", "D", "."}

Templates == UNION {[1 .. n -> PatternChars] : n \in 0 .. MaxPatternLen}

Dates == {[year |-> 2024, month |-> 1, day |-> 9],
          [year |-> 987, month |-> 12, day |-> 31]}

Digit(n) == <<"0", "1", "2", "3", "4", "5", "6", "7", "8", "9">>[n + 1]

RECURSIVE Padded(_, _)
\* the decimal digits of n, zero-padded to width, as str(load_date) writes them
Padded(n, width) ==
    IF width = 0 THEN << >>
    ELSE Append(Padded(n \div 10, width - 1), Digit(n % 10))

RECURSIVE Replace_FirstOnly(_, _, _)
\* variant: only the first occurrence is replaced
Replace_FirstOnly(s, old, new) ==
    IF Len(s) < Len(old) THEN s
    ELSE IF SubSeq(s, 1, Len(old)) = old
         THEN new \o SubSeq(s, Len(old) + 1, Len(s))
         ELSE <<Head(s)>> \o Replace_FirstOnly(Tail(s), old, new)

RECURSIVE Replace(_, _, _)
\* str.replace(old, new): every occurrence, left to right, without overlap
Replace(s, old, new) ==
    IF Len(s) < Len(old) THEN s
    ELSE IF SubSeq(s, 1, Len(old)) = old
         THEN new \o Replace(SubSeq(s, Len(old) + 1, Len(s)), old, new)
         ELSE <<Head(s)>> \o Replace(Tail(s), old, new)

\* yyyy, mm, dd = str(load_date).split("-")
\* filename_pattern.replace("YYYY", yyyy).replace("MM", mm).replace("DD", dd)
Substituted(s, date) ==
    Replace(Replace(Replace(s, <<"Y", "Y", "Y", "Y">>, Padded(date.year, 4)),
                    <<"M", "M">>, Padded(date.month, 2)),
            <<"D", "D">>, Padded(date.day, 2))

\* ---- initial state --------------------------------------------------------
\* the run has not started
RunStart ==
    /\ listed = {}
    /\ deleted = {}
    /\ archive = {}
    /\ seen_flags = {}
    /\ session = "none"
    /\ readonly = FALSE
    /\ pc = "idle"
    /\ failure = "none"
    /\ uids = << >>
    /\ idx = 0
    /\ mail = [u \in UIDs |-> NoMail]
    /\ att = 0
    /\ attachments_found = FALSE
    /\ uids_to_move = {}
    /\ pending = {}
    /\ cur = 0
    /\ blobs = [k \in {get_blob_name(n) : n \in FileNames} |-> << >>]
    /\ events = << >>
    /\ exitStatus = -1

\* the flow manager main() hands to run(): the pattern has been substituted
Init ==
    /\ fetch_one \in BOOLEAN
    /\ match_date_received \in BOOLEAN
    /\ archive_folder \in BOOLEAN
    /\ load_date = [year |-> 2024, month |-> 1, day |-> 9]
    /\ template = <<"Y", "Y", "Y", "Y">>
    /\ filename_pattern = Substituted(template, load_date)
    /\ passes = 1
    /\ \E n \in 0 .. NumMsgs : inbox = 1 .. n
    /\ RunStart

\* ---- run(): session set-up -------------------------------------------------
\* with imaplib.IMAP4_SSL(self.imap_ssl_host) as imap:
Connect ==
    /\ pc = "idle"
    /\ \E ok \in BOOLEAN :
        IF ok
        THEN /\ session' = "NONAUTH"
             /\ pc' = "connected"
             /\ Log(Event("connect", 0, 0, "OK"))
             /\ UNCHANGED failure
        ELSE \* the constructor raised: the with-block is never entered
             /\ pc' = "raised"
             /\ failure' = "connect"
             /\ Log(Event("connect", 0, 0, "error"))
             /\ UNCHANGED session
    /\ UNCHANGED <<config, mailbox, scanner, archiver, readonly, uids_to_move,
                   blobs, exitStatus>>

\* imap.login(...); attachments = self.get_attachments(imap); uids_to_move = set()
Login ==
    /\ pc = "connected"
    /\ \E ok \in BOOLEAN :
        IF ok
        THEN /\ session' = "AUTH"
             /\ pc' = "authenticated"
             /\ Log(Event("login", 0, 0, "OK"))
             /\ UNCHANGED failure
        ELSE /\ Raise("login")
             /\ Log(Event("login", 0, 0, "error"))
             /\ UNCHANGED session
    /\ uids_to_move' = {}
    /\ UNCHANGED <<config, mailbox, scanner, archiver, readonly, blobs, exitStatus>>

\* ---- get_attachments(): the generator --------------------------------------
\* first pull of "for uid, attachment in attachments": the generator starts;
\* if self.archive_folder is not None:
\*     self.raise_if_not_ok(*imap.select(self.archive_folder, readonly=True))
Probe ==
    /\ pc = "authenticated"
    /\ IF archive_folder
       THEN \E response \in {"OK", "NO"} :
              /\ Log(Event("probe", 0, 0, response))
              /\ session' = IF response = "OK" THEN "SELECTED" ELSE "AUTH"
              /\ readonly' = (response = "OK")
              /\ IF raise_if_not_ok(response)
                 THEN Raise("probe")
                 ELSE pc' = "selecting" /\ UNCHANGED failure
       ELSE /\ pc' = "selecting"
            /\ UNCHANGED <<events, session, readonly, failure>>
    /\ UNCHANGED <<config, mailbox, scanner, archiver, uids_to_move, blobs, exitStatus>>

\* variant: the inbox is selected with the default readonly=False
SelectReadonly_Default == FALSE
\* the readonly argument of the select at line 127
SelectReadonly == TRUE

\* imap.select(readonly=True)
SelectInbox ==
    /\ pc = "selecting"
    /\ Log(Event("select_ro", 0, 0, "OK"))
    /\ session' = "SELECTED"
    /\ readonly' = SelectReadonly
    /\ pc' = "searching"
    /\ UNCHANGED <<config, mailbox, scanner, archiver, failure, uids_to_move, blobs,
                   exitStatus>>

\* what the search expression leaves in uids: a list of identifiers
\* (..."ALL")[1][0].split()), or the (typ, data) pair that imap.uid() returns
SearchResultIsList == ~match_date_received

\* the search, uids.reverse() and attachments_found = False
Search ==
    /\ pc = "searching"
    /\ IF match_date_received
       THEN \* imap.uid("search", "ON", on_value): the messages of that day
            /\ Log(Event("search_on", 0, 0, "OK"))
            /\ listed' \in SUBSET inbox
       ELSE \* imap.uid("search", None, "ALL")
            /\ Log(Event("search_all", 0, 0, "OK"))
            /\ listed' = inbox
    /\ IF SearchResultIsList
       THEN /\ uids' = Reverse(Ascending(listed'))
            /\ idx' = 1
            /\ attachments_found' = FALSE
            /\ pc' = "scanning"
            /\ UNCHANGED failure
       ELSE \* a tuple has no reverse()
            /\ Raise("AttributeError")
            /\ UNCHANGED <<uids, idx, attachments_found>>
    /\ UNCHANGED <<config, inbox, deleted, archive, seen_flags, mail, att, archiver,
                   session, readonly, uids_to_move, blobs, exitStatus>>

\* variant: the sender pattern is not applied
matchesMessage_SubjectOnly(m) == email_subject_match(m.subject)
\* if self.email_subject.match(...) and self.email_sender.match(...):
MessageSelected(m) == matchesMessage(m)

\* pattern.match(None) raises TypeError; "and" evaluates the sender test only
\* when the subject matched
HeaderTestRaises(m) ==
    \/ m.subject = None
    \/ email_subject_match(m.subject) /\ m.sender = None

\* for uid in uids: raw_mail = imap.uid("fetch", uid, "(RFC822)")...; the
\* subject and sender test
Fetch ==
    /\ pc = "scanning"
    /\ idx <= Len(uids)
    /\ \E h \in Headers :
        IF HeaderTestRaises(h)
        THEN /\ mail' = [mail EXCEPT ![uids[idx]] = h]
             /\ Raise("TypeError")
             /\ UNCHANGED <<idx, att>>
        ELSE IF MessageSelected(h)
        THEN \* mail.iter_attachments() walks the parts
             /\ \E parts \in AttLists :
                  mail' = [mail EXCEPT ![uids[idx]] =
                              [h EXCEPT !.atts = parts, !.seen = "parts"]]
             /\ pc' = "iterating"
             /\ att' = 0
             /\ UNCHANGED <<idx, failure>>
        ELSE /\ mail' = [mail EXCEPT ![uids[idx]] = h]
             /\ pc' = "scanning"
             /\ idx' = idx + 1
             /\ UNCHANGED <<att, failure>>
    /\ Log(Event("fetch", uids[idx], 0, "OK"))
    \* a fetch of RFC822 sets \Seen unless the folder is selected read-only
    /\ seen_flags' = IF readonly THEN seen_flags ELSE seen_flags \cup {uids[idx]}
    /\ UNCHANGED <<config, inbox, listed, deleted, archive, uids, attachments_found,
                   archiver, session, readonly, uids_to_move, blobs, exitStatus>>

\* the attachment parts after part j at which the loop over the parts does not
\* just go on: the declared filename matches (a yield) or is missing (the
\* match raises TypeError)
MatchingAfter(m, j) ==
    {k \in (j + 1) .. Len(m.atts) :
        m.atts[k] = None \/ filename_pattern_match(m.atts[k])}

Min(S) == CHOOSE x \in S : \A y \in S : x <= y

\* variant: the cutoff does not wait for a yielded attachment
CutoffReached_WithoutAttachment == fetch_one
\* if self.fetch_one and attachments_found: return
CutoffReached == fetch_one /\ attachments_found

\* variant: the generator runs on after a yield and the pairs are collected
AfterYield_RunsOn == "iterating"
\* yield uid, attachment: the generator is suspended and the body of the loop
\* in run() gets the pair
AfterYield == "uploading"

\* for attachment in mail.iter_attachments(): ... yield uid, attachment;
\* after the last part, the cutoff test and the next candidate
Iterate ==
    /\ pc = "iterating"
    /\ LET m == mail[uids[idx]]
           rest == MatchingAfter(m, att)
       IN IF rest # {} /\ m.atts[Min(rest)] = None
          THEN /\ att' = Min(rest)
               /\ Raise("TypeError")
               /\ UNCHANGED <<idx, attachments_found, events>>
          ELSE IF rest # {}
          THEN /\ att' = Min(rest)
               /\ attachments_found' = TRUE
               /\ Log(Event("yield", uids[idx], Min(rest), m.atts[Min(rest)]))
               /\ pc' = AfterYield
               /\ UNCHANGED <<idx, failure>>
          ELSE /\ IF CutoffReached
                  THEN pc' = "exhausted" /\ UNCHANGED idx
                  ELSE pc' = "scanning" /\ idx' = idx + 1
               /\ UNCHANGED <<att, attachments_found, events, failure>>
    /\ UNCHANGED <<config, mailbox, uids, mail, archiver, session, readonly,
                   uids_to_move, blobs, exitStatus>>

\* variant: an empty scan ends like any other
NoMatchRaised_Never == FALSE
\* if not attachments_found: raise EmailDownloaderError("0 attachments ...")
NoMatchRaised == ~attachments_found

\* the candidates are used up
ScanEnd ==
    /\ pc = "scanning"
    /\ idx > Len(uids)
    /\ IF NoMatchRaised
       THEN Raise("nomatch")
       ELSE pc' = "exhausted" /\ UNCHANGED failure
    /\ UNCHANGED <<config, mailbox, scanner, archiver, session, readonly,
                   uids_to_move, blobs, events, exitStatus>>

\* ---- run(): the upload loop ------------------------------------------------
\* variant: the identifier is recorded before the upload is known to succeed
BatchAfterUpload_AddFirst(batch, uid, ok) == batch \cup {uid}
\* self.upload(attachment); uids_to_move.add(uid): the add is reached only when
\* upload() returned
BatchAfterUpload(batch, uid, ok) == IF ok THEN batch \cup {uid} ELSE batch

\* variant: a blob that exists is left as it is
create_blob_from_bytes_IfAbsent(stored, payload) == IF stored = << >> THEN payload ELSE stored
\* create_blob_from_bytes(payload, blob_name=blob_name): what the key holds
\* afterwards; an existing blob is overwritten
create_blob_from_bytes(stored, payload) == payload

\* variant: a failed upload is skipped and the loop goes on
UploadErrorPropagates_Swallowed == FALSE
\* run() has no handler around self.upload(attachment)
UploadErrorPropagates == TRUE

\* the loop body for the pair the generator has just yielded, then the next
\* pull (the generator resumes after its yield)
Upload ==
    /\ pc = "uploading"
    /\ LET uid == uids[idx]
           name == mail[uid].atts[att]
       IN \E ok \in BOOLEAN :
            /\ Log(Event("upload", uid, att, IF ok THEN "OK" ELSE "error"))
            /\ blobs' = IF ok
                        THEN [blobs EXCEPT ![get_blob_name(name)] =
                                 create_blob_from_bytes(@, <<uid, att>>)]
                        ELSE blobs
            /\ uids_to_move' = BatchAfterUpload(uids_to_move, uid, ok)
            /\ IF ~ok /\ UploadErrorPropagates
               THEN Raise("upload")
               ELSE pc' = "iterating" /\ UNCHANGED failure
    /\ UNCHANGED <<config, mailbox, scanner, archiver, session, readonly, exitStatus>>

\* ---- run(): archival --------------------------------------------------------
\* variant: every candidate is archived
ArchiveBatch_AllCandidates == listed
\* the batch handed to archive_uids
ArchiveBatch == uids_to_move

\* the generator is exhausted; if self.archive_folder is not None:
\* archive_uids(imap, uids_to_move) starts with imap.select()
ArchiveStart ==
    /\ pc = "exhausted"
    /\ IF archive_folder
       THEN /\ Log(Event("select_rw", 0, 0, "OK"))
            /\ readonly' = FALSE
            /\ pending' = ArchiveBatch
            /\ pc' = "archiving"
       ELSE /\ pc' = "leaving"
            /\ UNCHANGED <<events, readonly, pending>>
    /\ UNCHANGED <<config, mailbox, scanner, cur, session, failure, uids_to_move,
                   blobs, exitStatus>>

\* for uid in uids: self.raise_if_not_ok(*imap.uid("COPY", uid, self.archive_folder))
\* (a set is iterated in no particular order)
Copy ==
    /\ pc = "archiving"
    /\ \E uid \in pending, response \in {"OK", "NO"} :
        /\ Log(Event("copy", uid, 0, response))
        /\ cur' = uid
        /\ archive' = IF response = "OK" THEN archive \cup {uid} ELSE archive
        /\ IF raise_if_not_ok(response)
           THEN Raise("copy")
           ELSE pc' = "marking" /\ UNCHANGED failure
    /\ UNCHANGED <<config, inbox, listed, deleted, seen_flags, scanner, pending,
                   session, readonly, uids_to_move, blobs, exitStatus>>

\* variant: the loop comes back to an identifier it has visited
PendingAfter_Revisit(rest, uid) == rest
\* for uid in uids: the iteration over the set moves on to the next element
PendingAfter(rest, uid) == rest \ {uid}

\* self.raise_if_not_ok(*imap.uid("STORE", uid, "+FLAGS", "(\Deleted)"))
Store ==
    /\ pc = "marking"
    /\ \E response \in {"OK", "NO"} :
        /\ Log(Event("store", cur, 0, response))
        /\ deleted' = IF response = "OK" THEN deleted \cup {cur} ELSE deleted
        /\ IF raise_if_not_ok(response)
           THEN Raise("store") /\ UNCHANGED pending
           ELSE /\ pc' = "archiving"
                /\ pending' = PendingAfter(pending, cur)
                /\ UNCHANGED failure
    /\ UNCHANGED <<config, inbox, listed, archive, seen_flags, scanner, cur, session,
                   readonly, uids_to_move, blobs, exitStatus>>

\* variant: the purge does not wait for the end of the loop
ExpungeDue_Early == TRUE
\* imap.expunge() follows the loop
ExpungeDue == pending = {}

\* imap.expunge(): the response is not looked at
Expunge ==
    /\ pc = "archiving"
    /\ ExpungeDue
    /\ \E response \in {"OK", "NO"} :
        /\ Log(Event("expunge", 0, 0, response))
        /\ inbox' = IF response = "OK" THEN inbox \ deleted ELSE inbox
        /\ deleted' = IF response = "OK" THEN {} ELSE deleted
    /\ pc' = "leaving"
    /\ UNCHANGED <<config, listed, archive, seen_flags, scanner, archiver, session,
                   readonly, failure, uids_to_move, blobs, exitStatus>>

\* ---- leaving the with-block and main() -------------------------------------
\* variant: the logout is skipped when an exception is passing through
SessionAfterExit_OnlyOnSuccess(raising) == IF raising THEN session ELSE "LOGOUT"
\* IMAP4.__exit__ logs out whether or not an exception is passing through
SessionAfterExit(raising) == "LOGOUT"

\* the end of "with imaplib.IMAP4_SSL(...) as imap:"
WithExit ==
    /\ pc \in {"leaving", "unwinding"}
    /\ Log(Event("logout", 0, 0, "OK"))
    /\ session' = SessionAfterExit(pc = "unwinding")
    /\ pc' = IF pc = "unwinding" THEN "raised" ELSE "returned"
    /\ UNCHANGED <<config, mailbox, scanner, archiver, readonly, failure,
                   uids_to_move, blobs, exitStatus>>

\* try: flow_manager.run() except Exception: ...; sys.exit("ERROR ENCOUNTERED ...")
MainExit ==
    /\ pc \in {"returned", "raised"}
    /\ exitStatus' = IF pc = "raised" THEN 1 ELSE 0
    /\ pc' = IF pc = "raised" THEN "failed" ELSE "done"
    /\ UNCHANGED <<config, mailbox, scanner, archiver, session, readonly, failure,
                   uids_to_move, blobs, events>>

Next ==
    \/ Connect
    \/ Login
    \/ Probe
    \/ SelectInbox
    \/ Search
    \/ Fetch
    \/ Iterate
    \/ ScanEnd
    \/ Upload
    \/ ArchiveStart
    \/ Copy
    \/ Store
    \/ Expunge
    \/ WithExit
    \/ MainExit

Spec == Init /\ [][Next]_vars

\* every call of the run returns: a step that can be taken is taken
FairSpec == Spec /\ WF_vars(Next)

\* ---- the substitution on its own, over every pattern and date --------------
SubstInit ==
    /\ fetch_one = FALSE
    /\ match_date_received = FALSE
    /\ archive_folder = FALSE
    /\ load_date \in Dates
    /\ template \in Templates
    /\ filename_pattern = template
    /\ passes = 0
    /\ inbox = {}
    /\ RunStart

\* one more application of lines 214-215 to the pattern
Substitute ==
    /\ pc = "idle"
    /\ passes < 2
    /\ filename_pattern' = Substituted(filename_pattern, load_date)
    /\ passes' = passes + 1
    /\ UNCHANGED <<fetch_one, match_date_received, archive_folder, load_date, template,
                   mailbox, scanner, archiver, session, readonly, pc, failure,
                   uids_to_move, blobs, events, exitStatus>>

SubstNext == Substitute

SubstSpec == SubstInit /\ [][SubstNext]_vars

\* ---- reading the history ---------------------------------------------------
Ops(names) == {k \in DOMAIN events : events[k].op \in names}

MailboxWrites == {"copy", "store", "expunge"}

\* successful uploads of part a of message u
UploadsOf(u, a) ==
    {k \in Ops({"upload"}) : events[k].uid = u /\ events[k].att = a /\ events[k].res = "OK"}

UploadedBefore(u, k) ==
    \E j \in Ops({"upload"}) : j < k /\ events[j].uid = u /\ events[j].res = "OK"

FailedUploads == {k \in Ops({"upload"}) : events[k].res # "OK"}

\* the run is past the with-block or the process has ended
Left == pc \in {"returned", "raised", "done", "failed"}

Failing == pc \in {"unwinding", "raised", "failed"}

\* the generator returned without raising
ScanCompleted ==
    \/ pc \in {"exhausted", "archiving", "marking", "leaving", "returned", "done"}
    \/ Failing /\ failure \in {"copy", "store"}

\* part a of message u satisfies the three predicates
Qualifies(u, a) ==
    /\ mail[u].seen # "no"
    /\ matchesMessage(mail[u])
    /\ a \in DOMAIN mail[u].atts
    /\ filename_pattern_match(mail[u].atts[a])

\* ---- properties -----------------------------------------------------------------
\* C1: a copy or a mark-deleted of a message is issued only after an upload of
\* one of its attachments returned success, and copy, mark-deleted and purge are
\* issued only when no upload has failed and every pair yielded so far has been
\* uploaded.
C1_ArchiveOnlyAfterUpload ==
    \A k \in DOMAIN events :
        events[k].op \in MailboxWrites =>
          /\ events[k].op \in {"copy", "store"} => UploadedBefore(events[k].uid, k)
          /\ \A j \in 1 .. (k - 1) :
               /\ events[j].op = "upload" => events[j].res = "OK"
               /\ events[j].op = "yield" =>
                    \E i \in (j + 1) .. (k - 1) :
                       /\ events[i].op = "upload" /\ events[i].res = "OK"
                       /\ events[i].uid = events[j].uid /\ events[i].att = events[j].att

\* archival of two messages went through after three uploads
C1_Witness ==
    /\ Cardinality(Ops({"upload"})) >= 3
    /\ Cardinality(Ops({"copy"})) = 2
    /\ Cardinality(Ops({"store"})) = 2
    /\ Ops({"expunge"}) # {}

ScanPos(u) == CHOOSE i \in DOMAIN uids : uids[i] = u

\* the pairs yielded so far
Yielded == {<<events[k].uid, events[k].att>> : k \in Ops({"yield"})}

\* C3: with fetch-one, all yielded pairs belong to one message; every message
\* scanned before it lacks a qualifying attachment; nothing is fetched after
\* its first pair was yielded; when the generator has returned, every
\* qualifying attachment of the message at which it stopped has been yielded,
\* so it stops before the end of the candidates only at a message that yielded.
C3_FetchOneCutoff ==
    fetch_one =>
      /\ \A p, q \in Yielded : p[1] = q[1]
      /\ \A p \in Yielded : \A i \in 1 .. (ScanPos(p[1]) - 1) :
             \A a \in 1 .. MaxAtts : ~Qualifies(uids[i], a)
      /\ \A k \in Ops({"yield"}) : \A j \in Ops({"fetch"}) : j < k
      /\ (pc = "exhausted" /\ idx <= Len(uids)) =>
             /\ \E a \in 1 .. MaxAtts : Qualifies(uids[idx], a)
             /\ \A a \in 1 .. MaxAtts : Qualifies(uids[idx], a) <=> <<uids[idx], a>> \in Yielded

\* the newest message matched subject and sender but had no attachment of a
\* matching name; the scan went on and stopped at the older one after both of
\* its attachments
C3_Witness ==
    /\ fetch_one
    /\ pc = "exhausted"
    /\ Len(uids) = 2
    /\ matchesMessage(mail[uids[1]])
    /\ mail[uids[1]].atts = <<"notes.txt">>
    /\ Yielded = {<<uids[2], 1>>, <<uids[2], 2>>}

\* C4: without fetch-one, when the scan has completed every message the
\* server listed has been fetched and an attachment has been uploaded once if it
\* qualifies (subject, sender and filename match) and not at all otherwise; at
\* no point has an attachment been uploaded that does not qualify.
C4_UploadsAreTheMatches ==
    /\ \A k \in Ops({"upload"}) : Qualifies(events[k].uid, events[k].att)
    /\ (~fetch_one /\ ScanCompleted) =>
         \A u \in listed :
            /\ mail[u].seen # "no"
            /\ \A a \in 1 .. MaxAtts :
                 Cardinality(UploadsOf(u, a)) = IF Qualifies(u, a) THEN 1 ELSE 0

\* a run over a message whose sender fails and a message with two matching
\* attachments has finished
C4_Witness ==
    /\ ~fetch_one
    /\ pc = "done"
    /\ \E u \in inbox : email_subject_match(mail[u].subject)
                        /\ ~email_sender_match(mail[u].sender)
    /\ \E u \in inbox : UploadsOf(u, 1) # {} /\ UploadsOf(u, 2) # {}

\* C5: when the loop over the candidates has run to its end and no pair was
\* yielded, the run is failing with the no-match error; the generator never
\* returns normally, and the run never succeeds, without a yielded pair.
C5_NoMatchFails ==
    /\ (idx > Len(uids) /\ pc # "scanning" /\ Yielded = {}) =>
          (Failing /\ failure = "nomatch")
    /\ ScanCompleted => Yielded # {}
    /\ pc = "done" => \E k \in Ops({"upload"}) : events[k].res = "OK"

\* a selected message had only an attachment of another name; the run failed
C5_Witness ==
    /\ pc = "failed"
    /\ failure = "nomatch"
    /\ exitStatus = 1
    /\ archive_folder
    /\ \E u \in inbox : mail[u].seen = "parts" /\ mail[u].atts = <<"notes.txt">>

\* C6: the probe of the archive folder comes before any search, fetch or
\* upload, and when it does not answer OK the run is failing and none of them
\* is ever issued.
C6_ProbeFirst ==
    /\ \A k \in Ops({"probe"}) :
         events[k].res # "OK" =>
            /\ Failing
            /\ failure = "probe"
            /\ Ops({"select_ro", "search_all", "search_on", "fetch", "yield", "upload"}) = {}
    /\ archive_folder =>
         \A k \in Ops({"select_ro", "search_all", "search_on", "fetch", "yield", "upload"}) :
            \E j \in Ops({"probe"}) : j < k /\ events[j].res = "OK"

\* the archive folder was missing and the run has failed
C6_Witness ==
    /\ pc = "failed"
    /\ failure = "probe"
    /\ \E k \in Ops({"probe"}) : events[k].res = "NO"

\* what the store holds under key: the attachment of the last successful upload
\* to it
LastUploadTo(key) ==
    LET ks == {k \in Ops({"upload"}) :
                  /\ events[k].res = "OK"
                  /\ get_blob_name(mail[events[k].uid].atts[events[k].att]) = key}
    IN IF ks = {} THEN << >>
       ELSE LET k == CHOOSE x \in ks : \A y \in ks : y <= x
            IN <<events[k].uid, events[k].att>>

\* C7: once an upload has failed the run is failing with that error, nothing
\* but the logout is issued afterwards (no fetch, upload, copy, mark-deleted or
\* purge), and the store still holds what the earlier uploads wrote.
C7_UploadFailureAborts ==
    \A k \in FailedUploads :
        /\ Failing
        /\ failure = "upload"
        /\ \A j \in DOMAIN events : j > k => events[j].op = "logout"
        /\ \A key \in DOMAIN blobs : blobs[key] = LastUploadTo(key)

\* with an archive folder configured, the first message was uploaded and the
\* upload for the second one failed: the run has failed with nothing archived
C7_Witness ==
    /\ pc = "failed"
    /\ failure = "upload"
    /\ archive_folder
    /\ uids_to_move # {}
    /\ \E key \in DOMAIN blobs : blobs[key] # << >>
    /\ \E k \in FailedUploads : events[k].uid \notin uids_to_move

\* C8: whenever the run is past the with-block, the session that was opened is
\* logged out; only a run whose connection was never established has none.
C8_SessionReleased ==
    Left =>
       IF \E k \in Ops({"connect"}) : events[k].res = "OK"
       THEN session = "LOGOUT" /\ Ops({"logout"}) # {}
       ELSE session = "none"

\* the mark-deleted of a copied message was refused and the run has ended
C8_Witness ==
    /\ pc = "failed"
    /\ failure = "store"
    /\ session = "LOGOUT"

\* C9: after the search the scanner holds as candidates the identifiers the
\* server listed (those of load_date - 1 day under date restriction, all
\* otherwise), newest first, and goes on to scan them.
C9_CandidatesAsListed ==
    (Ops({"search_all", "search_on"}) # {} /\ events[Len(events)].op \in {"search_all", "search_on"}) =>
        /\ pc = "scanning"
        /\ uids = Reverse(Ascending(listed))

\* C10: when the purge is issued, every identifier of the batch has been copied
\* with success and, after that, marked deleted with success, each once; the
\* purge is issued once, nothing but the logout follows it and the run is not
\* failing; a mark-deleted always follows the copy of the same identifier; a
\* run with an archive folder that ends with success has purged.
C10_ArchiveOrder ==
    /\ \A k \in Ops({"expunge"}) :
         /\ \A u \in uids_to_move :
              \E i \in Ops({"copy"}), j \in Ops({"store"}) :
                 /\ i < j /\ j < k
                 /\ events[i].uid = u /\ events[i].res = "OK"
                 /\ events[j].uid = u /\ events[j].res = "OK"
         /\ Ops({"expunge"}) = {k}
         /\ \A j \in DOMAIN events : j > k => events[j].op = "logout"
         /\ ~Failing
         /\ uids_to_move \subseteq archive
    /\ \A j \in Ops({"store"}) :
         \E i \in Ops({"copy"}) : i < j /\ events[i].uid = events[j].uid /\ events[i].res = "OK"
    /\ \A i, j \in Ops({"copy"}) \cup Ops({"store"}) :
         (events[i].op = events[j].op /\ events[i].uid = events[j].uid) => i = j
    /\ (archive_folder /\ pc = "done") => (Ops({"expunge"}) # {} /\ exitStatus = 0)

\* two messages were copied, marked and purged, and the run ended with status 0
C10_Witness ==
    /\ pc = "done"
    /\ exitStatus = 0
    /\ Cardinality(uids_to_move) = 2
    /\ archive = uids_to_move
    /\ inbox = {}
    /\ \E k \in Ops({"expunge"}) : events[k].res = "OK"

\* C11: once a copy or a mark-deleted has not answered OK, the run is failing
\* with that error and nothing but the logout is issued afterwards: the
\* message whose copy failed is not marked, no other identifier is copied or
\* marked, the refused operation is not issued again and there is no purge;
\* the store still holds what the uploads wrote.
C11_ArchiveFailureAborts ==
    \A k \in DOMAIN events :
        (events[k].op \in {"copy", "store"} /\ events[k].res # "OK") =>
           /\ Failing
           /\ failure = events[k].op
           /\ \A j \in DOMAIN events : j > k => events[j].op = "logout"
           /\ events[k].op = "copy" =>
                 /\ events[k].uid \notin deleted
                 /\ \A j \in DOMAIN events :
                       events[j].op = "store" => events[j].uid # events[k].uid
           /\ \A key \in DOMAIN blobs : blobs[key] = LastUploadTo(key)
           /\ \E key \in DOMAIN blobs : blobs[key] # << >>

\* the first message was copied and marked, the copy of the second one was
\* refused and the run has ended
C11_Witness ==
    /\ pc = "failed"
    /\ failure = "copy"
    /\ Cardinality(uids_to_move) = 2
    /\ Cardinality(archive) = 1
    /\ deleted = archive
    /\ Ops({"expunge"}) = {}

\* the calls that did not succeed
FailedCalls == {k \in DOMAIN events : events[k].op # "yield" /\ events[k].res # "OK"}

\* C12: when the process has ended, its exit status is 0 exactly when no stage
\* failed (no exception and no call that did not succeed, the purge included),
\* and 1 otherwise; a call that failed is not issued again.
C12_ExitStatusReflectsStages ==
    /\ pc \in {"done", "failed"} =>
         /\ exitStatus \in {0, 1}
         /\ exitStatus = 0 <=> (failure = "none" /\ FailedCalls = {})
    /\ \A k \in FailedCalls : \A j \in DOMAIN events :
         j > k => ~(events[j].op = events[k].op /\ events[j].uid = events[k].uid)

\* C13: substituting the placeholders a second time with the same date leaves
\* the pattern as the first substitution made it.
C13_SubstitutionIdempotent ==
    passes = 2 => filename_pattern = Substituted(template, load_date)

\* a pattern of five Y, a year placeholder and a lone Y, was substituted twice
C13_Witness ==
    /\ passes = 2
    /\ template = <<"Y", "Y", "Y", "Y", "Y">>
    /\ filename_pattern = <<"2", "0", "2", "4", "Y">>

\* ---- the phases of a run ----------------------------------------------------
\* the phase a position of run() belongs to: the generator's own statements
\* are Scanning, the body of the upload loop and its end are Uploading,
\* archive_uids is Archiving, and once an exception is raised the run is Failed
PhaseOf(p) ==
    CASE p = "idle" -> "Idle"
      [] p = "connected" -> "Connected"
      [] p = "authenticated" -> "Authenticated"
      [] p \in {"selecting", "searching", "scanning", "iterating"} -> "Scanning"
      [] p \in {"uploading", "exhausted"} -> "Uploading"
      [] p \in {"archiving", "marking"} -> "Archiving"
      [] p \in {"leaving", "returned", "done"} -> "Done"
      [] p \in {"unwinding", "raised", "failed"} -> "Failed"

PhaseRank(ph) ==
    CASE ph = "Idle" -> 0
      [] ph = "Connected" -> 1
      [] ph = "Authenticated" -> 2
      [] ph = "Scanning" -> 3
      [] ph = "Uploading" -> 4
      [] ph = "Archiving" -> 5
      [] ph = "Done" -> 6
      [] ph = "Failed" -> 7

\* Done and Failed are never left; any other phase may fail
PhaseStepAbsorbing ==
    /\ PhaseOf(pc) \in {"Done", "Failed"} => PhaseOf(pc') = PhaseOf(pc)
    /\ PhaseOf(pc') = "Failed" => PhaseOf(pc) # "Done"

\* nothing is asked of a folder before the login succeeded, and after a failed
\* login only the logout follows
LoginGatesTheRun ==
    /\ \A k \in Ops({"probe", "select_ro", "search_all", "search_on", "fetch",
                     "select_rw", "copy", "store", "expunge"}) :
          \E j \in 1 .. (k - 1) : events[j].op = "login" /\ events[j].res = "OK"
    /\ \A k \in Ops({"login"}) :
          events[k].res # "OK" =>
             /\ Failing
             /\ failure = "login"
             /\ \A j \in DOMAIN events : events[j].op \in {"connect", "login", "logout"}

\* C14 as stated: the phases Idle, Connected, Authenticated, Scanning,
\* Uploading, Archiving, Done are passed through forwards only (a step never
\* lowers the phase), Done and Failed are never left, and the login gates every
\* folder operation.  The generator is lazy, so a run returns from Uploading to
\* Scanning after every upload.
C14_PhasesForwardOnly ==
    /\ []LoginGatesTheRun
    /\ [][/\ PhaseStepAbsorbing
          /\ PhaseRank(PhaseOf(pc')) >= PhaseRank(PhaseOf(pc))]_vars

\* C14 amended: the only step that lowers the phase is the return from
\* Uploading to Scanning when an upload has succeeded and the generator is
\* resumed; every other step keeps or raises the phase, Done and Failed are
\* never left, no folder is selected, searched or fetched from before the login
\* succeeded, and a failed login leaves the run Failed with no scan, upload or
\* archive operation.
C14_PhasesForwardButForResume ==
    /\ []LoginGatesTheRun
    /\ [][/\ PhaseStepAbsorbing
          /\ \/ PhaseRank(PhaseOf(pc')) >= PhaseRank(PhaseOf(pc))
             \/ /\ pc = "uploading"
                /\ pc' = "iterating"
                /\ Len(events') = Len(events) + 1
                /\ events'[Len(events')].op = "upload"
                /\ events'[Len(events')].res = "OK"]_vars

\* a run that finished well fetched a message after it had uploaded an
\* attachment
C14_Witness ==
    /\ pc = "done"
    /\ \E i, j \in DOMAIN events :
          i < j /\ events[i].op = "upload" /\ events[j].op = "fetch"

\* ---- the order of the scan ---------------------------------------------------
\* C15: the candidates are fetched in the reverse of the server's listing
\* (ascending identifiers), highest identifier first and none skipped, each at
\* most once; the pairs are yielded message by message in that order and within
\* a message in the order of its parts, each from the message fetched last;
\* and every upload is of the pair yielded just before it.
C15_ReverseListingOrder ==
    \A k \in DOMAIN events :
        /\ events[k].op = "fetch" =>
              /\ events[k].uid \in listed
              /\ \A j \in 1 .. (k - 1) :
                    events[j].op = "fetch" => events[j].uid > events[k].uid
              /\ \A u \in listed :
                    u > events[k].uid =>
                       \E j \in 1 .. (k - 1) :
                          events[j].op = "fetch" /\ events[j].uid = u
        /\ events[k].op = "yield" =>
              /\ \E f \in 1 .. (k - 1) :
                    /\ events[f].op = "fetch"
                    /\ events[f].uid = events[k].uid
                    /\ \A i \in (f + 1) .. (k - 1) : events[i].op # "fetch"
              /\ \A j \in 1 .. (k - 1) :
                    events[j].op = "yield" =>
                       \/ events[j].uid > events[k].uid
                       \/ /\ events[j].uid = events[k].uid
                          /\ events[j].att < events[k].att
        /\ events[k].op = "upload" =>
              /\ k > 1
              /\ events[k - 1].op = "yield"
              /\ events[k - 1].uid = events[k].uid
              /\ events[k - 1].att = events[k].att

\* a run that finished well yielded both parts of message 2 and then a part
\* of message 1
C15_Witness ==
    /\ pc = "done"
    /\ \E i, j, k \in Ops({"yield"}) :
          /\ i < j /\ j < k
          /\ events[i].uid = 2 /\ events[i].att = 1
          /\ events[j].uid = 2 /\ events[j].att = 2
          /\ events[k].uid = 1

\* ---- one pair at a time -------------------------------------------------------
\* event y + 1 is the upload of the pair yielded at y
UploadedNext(y) ==
    /\ y < Len(events)
    /\ events[y + 1].op = "upload"
    /\ events[y + 1].uid = events[y].uid
    /\ events[y + 1].att = events[y].att

\* C16: a yielded pair is uploaded before anything else happens, so the only
\* pair that can await its upload is the one yielded last, with the run at the
\* upload; and when a candidate is fetched, every pair yielded before has been
\* uploaded, and successfully.
C16_OnePairAtATime ==
    \A k \in DOMAIN events :
        /\ events[k].op = "yield" =>
              \/ k = Len(events) /\ pc = "uploading"
              \/ UploadedNext(k)
        /\ events[k].op = "fetch" =>
              \A y \in 1 .. (k - 1) :
                 events[y].op = "yield" =>
                    UploadedNext(y) /\ events[y + 1].res = "OK"

\* message 1 is fetched after both parts of message 2 were yielded and uploaded
C16_Witness ==
    /\ Len(events) > 0
    /\ events[Len(events)].op = "fetch"
    /\ events[Len(events)].uid = 1
    /\ Cardinality({k \in Ops({"upload"}) : events[k].uid = 2}) = 2

\* ---- the archiver and the empty batch -----------------------------------------
ArchiverOps == {"select_rw", "copy", "store", "expunge"}

ReadOnlyBeforeArchiver ==
    /\ (pc \in {"searching", "scanning", "iterating", "uploading", "exhausted"}) =>
          (session = "SELECTED" /\ readonly)
    /\ (pc = "selecting" /\ archive_folder) => (session = "SELECTED" /\ readonly)
    /\ \A k \in Ops(MailboxWrites) :
          \E j \in 1 .. (k - 1) : events[j].op = "select_rw"
    /\ \A k \in Ops({"select_rw"}) :
          \A j \in 1 .. (k - 1) : events[j].op \notin {"select_rw"} \cup MailboxWrites
    /\ ~archive_folder => Ops({"select_rw"}) = {}
    /\ (Failing /\ failure \notin {"copy", "store"}) => Ops({"select_rw"}) = {}
    /\ Ops({"select_rw"}) = {} =>
          /\ deleted = {}
          /\ archive = {}
          /\ seen_flags = {}
          /\ listed \subseteq inbox

\* C18: the session is read-only during the probe, the scan and the upload
\* loop; copy, mark-deleted and purge are issued only after archive_uids has
\* selected the inbox read-write; a step changes the source folder's messages
\* or flags or the archive folder only inside archive_uids; so a run without
\* an archive folder, or one that fails before archive_uids, leaves both
\* folders as they were.
C18_MailboxFrame ==
    /\ []ReadOnlyBeforeArchiver
    /\ [][<<inbox, deleted, archive, seen_flags>>' # <<inbox, deleted, archive, seen_flags>> =>
             /\ pc \in {"archiving", "marking"}
             /\ ~readonly
             /\ archive_folder]_vars

\* without an archive folder both messages were fetched, both gave an upload,
\* and the run ended well with the folders untouched
C18_Witness ==
    /\ ~archive_folder
    /\ pc = "done"
    /\ inbox = 1 .. 2
    /\ uids_to_move = {1, 2}
    /\ deleted = {} /\ archive = {} /\ seen_flags = {}

\* ---- storage keys ----------------------------------------------------------------
\* the declared filename of the pair an event is about
NameOf(k) == mail[events[k].uid].atts[events[k].att]

\* the qualifying parts with declared filename n, over the whole mailbox
QualifyingNamed(n) ==
    {<<u, a>> \in UIDs \X (1 .. MaxAtts) : Qualifies(u, a) /\ mail[u].atts[a] = n}

NoOperationRepeats ==
    \A j, k \in Ops({"fetch", "copy", "store"}) :
        (j # k /\ events[j].op = events[k].op) => events[j].uid # events[k].uid

\* C20: when every call returns, the run reaches a terminal outcome, success or
\* failure, with the session logged out (or never opened); on the way no
\* candidate is fetched twice and no batch identifier is copied or marked
\* twice.
C20_RunTerminates ==
    /\ []NoOperationRepeats
    /\ <>(/\ pc \in {"done", "failed"}
          /\ exitStatus \in {0, 1}
          /\ session \in {"none", "LOGOUT"})

\* a run over two messages that archived both has ended with the session
\* logged out
C20_Witness ==
    /\ pc = "done"
    /\ session = "LOGOUT"
    /\ Cardinality(Ops({"fetch"})) = 2
    /\ Cardinality(Ops({"copy"})) = 2
    /\ Cardinality(Ops({"store"})) = 2
====
